---- MODULE Spec2Model ----
(***************************************************************************)
(* Model of backend/main.py: the retrieval service that keeps a text       *)
(* manual (kb/manual.txt), an in-memory passage list (documents) and a     *)
(* vector index (index) side by side, answers questions from them, writes  *)
(* every fused answer back, and folds feedback corrections into them.      *)
(*                                                                         *)
(* A text is a sequence of pieces: the whitespace characters " " and "\n", *)
(* each a piece of its own, and runs of text that hold no newline and      *)
(* neither start nor end with whitespace.  strip(), the line split of the  *)
(* manual file and " | ".join look at nothing else, and are computed on    *)
(* the pieces as Python computes them on the characters.                   *)
(***************************************************************************)
EXTENDS Integers, Sequences, FiniteSets, TLC

VARIABLES
    manual,        \* content of KB_PATH, a sequence of characters
    documents,     \* the list `documents`
    index,         \* the faiss index: one entry per vector, in add order
    feedback_file, \* content of FEEDBACK_PATH
    api_key,       \* truthiness of GEMINI_API_KEY
    last,          \* outcome of the last completed call
    procs          \* per worker thread: where it is in its request, its locals

vars == <<manual, documents, index, feedback_file, api_key, last, procs>>

(***************************************************************************)
(* Bounds of the model.                                                    *)
(***************************************************************************)
MaxDocs == 4
MaxLog == 2
MaxMetricsLog == 3
NumWorkers == 2

(***************************************************************************)
(* Characters and text.                                                    *)
(***************************************************************************)
SP == " "
NL == "\n"

IsSpace(c) == c \in {SP, NL}

RECURSIVE lstrip(_)
lstrip(s) ==
    IF s = <<>> THEN <<>>
    ELSE IF IsSpace(Head(s)) THEN lstrip(Tail(s))
    ELSE s

RECURSIVE rstrip(_)
rstrip(s) ==
    IF s = <<>> THEN <<>>
    ELSE IF IsSpace(s[Len(s)]) THEN rstrip(SubSeq(s, 1, Len(s) - 1))
    ELSE s

\* str.strip()
strip(s) == rstrip(lstrip(s))

\* f.readlines(): the file cut after every newline (the newline itself is
\* whitespace and is removed by the strip() that follows)
RECURSIVE readlines(_, _)
readlines(f, cur) ==
    IF f = <<>> THEN (IF cur = <<>> THEN <<>> ELSE <<cur>>)
    ELSE IF Head(f) = NL THEN <<cur \o <<NL>>>> \o readlines(Tail(f), <<>>)
    ELSE readlines(Tail(f), cur \o <<Head(f)>>)

\* [line.strip() for line in f.readlines() if line.strip()]
RECURSIVE stripped_nonempty(_)
stripped_nonempty(ls) ==
    IF ls = <<>> THEN <<>>
    ELSE IF strip(Head(ls)) = <<>> THEN stripped_nonempty(Tail(ls))
    ELSE <<strip(Head(ls))>> \o stripped_nonempty(Tail(ls))

load_docs(f) == stripped_nonempty(readlines(f, <<>>))

\* f.write("\n" + text + "\n") on a file opened in append mode
write_line(f, text) == f \o <<NL>> \o text \o <<NL>>

RECURSIVE write_lines(_, _)
write_lines(f, texts) ==
    IF texts = <<>> THEN f
    ELSE write_lines(write_line(f, Head(texts)), Tail(texts))

\* " | ".join(docs)
RECURSIVE join(_)
join(docs) ==
    IF docs = <<>> THEN <<>>
    ELSE IF Len(docs) = 1 THEN docs[1]
    ELSE docs[1] \o <<SP, "|", SP>> \o join(Tail(docs))

(***************************************************************************)
(* The embedder and the flat L2 index.  The embedding is a deterministic   *)
(* function of the text alone; the model counts two words.  An index       *)
(* entry keeps the text its vector was computed from beside the vector.    *)
(***************************************************************************)
RECURSIVE count(_, _)
count(s, c) ==
    IF s = <<>> THEN 0
    ELSE (IF Head(s) = c THEN 1 ELSE 0) + count(Tail(s), c)

encode(t) == <<count(t, "a"), count(t, "b")>>

entry(t) == [src |-> t, vec |-> encode(t)]

\* squared Euclidean distance of IndexFlatL2
l2(u, v) == (u[1] - v[1]) * (u[1] - v[1]) + (u[2] - v[2]) * (u[2] - v[2])

\* the next nearest id not yet taken, ties to the lower id; -1 when none is left
nearest(idx, q, taken) ==
    LET left == (1..Len(idx)) \ taken
    IN  IF left = {} THEN 0
        ELSE CHOOSE i \in left :
                \A j \in left :
                    \/ l2(idx[i].vec, q) < l2(idx[j].vec, q)
                    \/ l2(idx[i].vec, q) = l2(idx[j].vec, q) /\ i <= j

\* index.search(q, k): k labels, nearest first, -1 where the index has no
\* further vector.  Labels are 0-based as in faiss.
RECURSIVE search_from(_, _, _, _)
search_from(idx, q, k, taken) ==
    IF k = 0 THEN <<>>
    ELSE LET n == nearest(idx, q, taken)
         IN  <<n - 1>> \o search_from(idx, q, k - 1, taken \cup {n})

search(idx, q, k) == search_from(idx, q, k, {})

\* a slip: only the first text of a batch is encoded and added
index_texts_first_only(idx, texts) ==
    IF texts = <<>> THEN idx
    ELSE Append(idx, [src |-> texts[1], vec |-> encode(texts[1])])

\* _index_texts(texts)
index_texts(idx, texts) ==
    IF texts = <<>> THEN idx
    ELSE idx \o [i \in 1..Len(texts) |-> entry(texts[i])]

(***************************************************************************)
(* Fixed texts of the program.                                             *)
(***************************************************************************)
BasedOnTheManual == <<"Based on the manual:", SP>>

NoRelevantInfo ==
    <<"No relevant info found in the manual and the model is unavailable.">>

KnowledgeBaseIsEmpty == <<"Knowledge base is empty.">>

GeminiGenerated == <<"gemini-generated">>

\* k of index.search in ask
TopK == 3

Min(a, b) == IF a < b THEN a ELSE b

(***************************************************************************)
(* _append_to_manual_and_index(text).  wok says whether the manual file    *)
(* can be written during the call.  The result holds the return value and  *)
(* the three stores after the call.                                        *)
(***************************************************************************)
\* a slip: the passage list and the index are updated before the write, and
\* stay updated when the write fails
append_update_before_write(text, wok, docs, idx, man) ==
    LET t == strip(text)
    IN  IF t = <<>>
        THEN [ok |-> FALSE, documents |-> docs, index |-> idx, manual |-> man]
        ELSE [ok |-> wok,
              documents |-> Append(docs, t),
              index |-> index_texts(idx, <<t>>),
              manual |-> IF wok THEN write_line(man, t) ELSE man]

\* a slip: no `if not text: return False`
append_unchecked_text(text, wok, docs, idx, man) ==
    LET t == strip(text)
    IN  IF ~wok
        THEN [ok |-> FALSE, documents |-> docs, index |-> idx, manual |-> man]
        ELSE [ok |-> TRUE,
              documents |-> Append(docs, t),
              index |-> index_texts(idx, <<t>>),
              manual |-> write_line(man, t)]

append_to_manual_and_index(text, wok, docs, idx, man) ==
    LET t == strip(text)
    IN  IF t = <<>>
        THEN [ok |-> FALSE, documents |-> docs, index |-> idx, manual |-> man]
        ELSE IF ~wok
        THEN [ok |-> FALSE, documents |-> docs, index |-> idx, manual |-> man]
        ELSE [ok |-> TRUE,
              documents |-> Append(docs, t),
              index |-> index_texts(idx, <<t>>),
              manual |-> write_line(man, t)]

(***************************************************************************)
(* ask: retrieval, fusion and write-back.                                  *)
(***************************************************************************)
\* a slip: `i > 0` for `i >= 0`, which drops the first passage
kept_ids_positive(I, docs) == SelectSeq(I, LAMBDA i : i > 0 /\ i < Len(docs))

\* the labels kept by `if i >= 0 and i < len(documents)`
kept_ids(I, docs) == SelectSeq(I, LAMBDA i : i >= 0 /\ i < Len(docs))

\* D, I = index.search(q_embed, k=min(3, len(documents))), filtered
retrieved_ids(q, docs, idx) ==
    kept_ids(search(idx, encode(q), Min(TopK, Len(docs))), docs)

docs_at(ids, docs) == [n \in 1..Len(ids) |-> docs[ids[n] + 1]]

\* fused_answer before the fallback: <<>> stands for None and for ""
generated(gen, key) ==
    IF key /\ ~gen.err THEN strip(gen.text) ELSE <<>>

\* a slip: `if fused_answer is None`, which lets an empty answer through
fuse_none_only(gen, key, kb_context) ==
    IF key /\ ~gen.err THEN strip(gen.text)
    ELSE IF kb_context # <<>> THEN BasedOnTheManual \o kb_context
    ELSE NoRelevantInfo

\* the answer after `if not fused_answer`
fuse(gen, key, kb_context) ==
    IF generated(gen, key) # <<>> THEN generated(gen, key)
    ELSE IF kb_context # <<>> THEN BasedOnTheManual \o kb_context
    ELSE NoRelevantInfo

sources_of(gen, key, retrieved_docs) ==
    IF retrieved_docs # <<>> THEN retrieved_docs
    ELSE IF key /\ ~gen.err THEN <<GeminiGenerated>>
    ELSE <<>>

\* a slip: only an answer of the model is written back, a fallback is not
ask_result_generated_only(q, gen, wok, key, docs, idx, man) ==
    IF docs = <<>>
    THEN [answer |-> KnowledgeBaseIsEmpty, sources |-> <<>>, ids |-> <<>>,
          ok |-> FALSE,
          documents |-> docs, index |-> idx, manual |-> man]
    ELSE LET ids == retrieved_ids(q, docs, idx)
             retrieved_docs == docs_at(ids, docs)
             fused_answer == fuse(gen, key, join(retrieved_docs))
             a == append_to_manual_and_index(generated(gen, key), wok,
                                             docs, idx, man)
         IN  [answer |-> fused_answer,
              sources |-> sources_of(gen, key, retrieved_docs),
              ids |-> ids,
              ok |-> a.ok,
              documents |-> a.documents, index |-> a.index, manual |-> a.manual]

\* a slip: no `if not documents` before the search, which then finds nothing
ask_result_no_empty_check(q, gen, wok, key, docs, idx, man) ==
    LET ids == retrieved_ids(q, docs, idx)
        retrieved_docs == docs_at(ids, docs)
        fused_answer == fuse(gen, key, join(retrieved_docs))
        a == append_to_manual_and_index(fused_answer, wok, docs, idx, man)
    IN  [answer |-> fused_answer,
         sources |-> sources_of(gen, key, retrieved_docs),
         ids |-> ids,
         ok |-> a.ok,
         documents |-> a.documents, index |-> a.index, manual |-> a.manual]

\* the whole request: the response and the stores after it
ask_result(q, gen, wok, key, docs, idx, man) ==
    IF docs = <<>>
    THEN [answer |-> KnowledgeBaseIsEmpty, sources |-> <<>>, ids |-> <<>>,
          ok |-> FALSE,
          documents |-> docs, index |-> idx, manual |-> man]
    ELSE LET ids == retrieved_ids(q, docs, idx)
             retrieved_docs == docs_at(ids, docs)
             fused_answer == fuse(gen, key, join(retrieved_docs))
             a == append_to_manual_and_index(fused_answer, wok, docs, idx, man)
         IN  [answer |-> fused_answer,
              sources |-> sources_of(gen, key, retrieved_docs),
              ids |-> ids,
              ok |-> a.ok,
              documents |-> a.documents, index |-> a.index, manual |-> a.manual]

(***************************************************************************)
(* The feedback log.  The file is absent, unparsable, valid JSON that is  *)
(* not a list, or a list of items.  An item is a record (a dict), a falsy *)
(* value that is not a dict (null, 0, "") or any other value that is not  *)
(* a dict (a non-empty string, a number).  A record's correction is       *)
(* absent/null, a string, or a value that is not a string.                *)
(***************************************************************************)
NoCorrection == [tag |-> "none", text |-> <<>>]
StrCorrection(t) == [tag |-> "str", text |-> t]
NumCorrection == [tag |-> "num", text |-> <<>>]

Dict(fb, corr) == [kind |-> "dict", feedback |-> fb, correction |-> corr]
Falsy == [kind |-> "falsy", feedback |-> <<>>, correction |-> NoCorrection]
Junk == [kind |-> "junk", feedback |-> <<>>, correction |-> NoCorrection]

Absent == [kind |-> "absent", items |-> <<>>]
Corrupt == [kind |-> "corrupt", items |-> <<>>]
NonList == [kind |-> "nonlist", items |-> <<>>]
List(items) == [kind |-> "list", items |-> items]

\* json.load(f), then `if not isinstance(.., list): .. = []`; for a file
\* that exists and parses
loaded_items(file) == IF file.kind = "list" THEN file.items ELSE <<>>

\* (item or {}).get("correction") raises AttributeError on an item that is
\* truthy and has no .get
get_raises(item) == item.kind = "junk"

\* a slip: the correction is tested trimmed but kept as it was sent
RECURSIVE new_texts_untrimmed(_)
new_texts_untrimmed(items) ==
    IF items = <<>> THEN <<>>
    ELSE LET correction == Head(items).correction
         IN  IF correction.tag = "str" /\ strip(correction.text) # <<>>
             THEN <<correction.text>> \o new_texts_untrimmed(Tail(items))
             ELSE new_texts_untrimmed(Tail(items))

\* the loop that extracts the non-empty corrections
RECURSIVE new_texts_of(_)
new_texts_of(items) ==
    IF items = <<>> THEN <<>>
    ELSE LET correction == Head(items).correction
         IN  IF correction.tag = "str" /\ strip(correction.text) # <<>>
             THEN <<strip(correction.text)>> \o new_texts_of(Tail(items))
             ELSE new_texts_of(Tail(items))

\* a slip: documents rebuilt with the corrections in front
reindex_result_in_front(written, file, docs, idx, man) ==
    LET same == [raised |-> FALSE, added |-> 0, message |-> "",
                 documents |-> docs, index |-> idx, manual |-> man]
        items == loaded_items(file)
        new_texts == new_texts_of(items)
    IN  IF file.kind \in {"absent", "corrupt"}
           \/ (\E i \in 1..Len(items) : get_raises(items[i]))
           \/ new_texts = <<>>
        THEN same
        ELSE [raised |-> FALSE,
              added |-> Len(new_texts),
              message |-> "Corrections added to index and manual.",
              documents |-> new_texts \o docs,
              index |-> index_texts(idx, new_texts),
              manual |-> write_lines(man, SubSeq(new_texts, 1,
                                                 Min(written, Len(new_texts))))]

(***************************************************************************)
(* reindex_from_feedback.  written is the number of texts of the run that *)
(* reach the manual file before the write fails (all of them when it does *)
(* not fail).                                                              *)
(***************************************************************************)
reindex_result(written, file, docs, idx, man) ==
    LET same == [raised |-> FALSE, added |-> 0, message |-> "",
                 documents |-> docs, index |-> idx, manual |-> man]
        items == loaded_items(file)
        new_texts == new_texts_of(items)
    IN  IF file.kind = "absent"
        THEN [same EXCEPT !.message = "No feedback file found."]
        ELSE IF file.kind = "corrupt"
        THEN [same EXCEPT !.message = "Failed to read feedback file."]
        ELSE IF \E i \in 1..Len(items) : get_raises(items[i])
        THEN [same EXCEPT !.raised = TRUE]
        ELSE IF new_texts = <<>>
        THEN [same EXCEPT !.message = "No corrections to add."]
        ELSE [raised |-> FALSE,
              added |-> Len(new_texts),
              message |-> "Corrections added to index and manual.",
              documents |-> docs \o new_texts,
              index |-> index_texts(idx, new_texts),
              manual |-> write_lines(man, SubSeq(new_texts, 1,
                                                 Min(written, Len(new_texts))))]

\* a slip: the log rewritten with the new record alone
feedback_result_new_only(data, fok, file) ==
    IF fok
    THEN [raised |-> FALSE, file |-> List(<<data>>)]
    ELSE [raised |-> TRUE, file |-> file]

(***************************************************************************)
(* feedback.  fok says whether FEEDBACK_PATH can be opened for writing.    *)
(***************************************************************************)
feedback_result(data, fok, file) ==
    IF fok
    THEN [raised |-> FALSE, file |-> List(Append(loaded_items(file), data))]
    ELSE [raised |-> TRUE, file |-> file]

(***************************************************************************)
(* metrics.  The feedback text of a record is a sequence of characters,   *)
(* since the keywords are looked for anywhere inside it.                   *)
(***************************************************************************)
UpperCase ==
    <<"A", "B", "C", "D", "E", "F", "G", "H", "I", "J", "K", "L", "M",
      "N", "O", "P", "Q", "R", "S", "T", "U", "V", "W", "X", "Y", "Z">>

LowerCase ==
    <<"a", "b", "c", "d", "e", "f", "g", "h", "i", "j", "k", "l", "m",
      "n", "o", "p", "q", "r", "s", "t", "u", "v", "w", "x", "y", "z">>

lower_char(c) ==
    IF \E i \in 1..Len(UpperCase) : UpperCase[i] = c
    THEN LowerCase[CHOOSE i \in 1..Len(UpperCase) : UpperCase[i] = c]
    ELSE c

\* str.lower()
lower(s) == [i \in 1..Len(s) |-> lower_char(s[i])]

\* k in fb
contains(fb, k) ==
    \E i \in 0..(Len(fb) - Len(k)) : SubSeq(fb, i + 1, i + Len(k)) = k

NegativeKeywords ==
    { <<"i", "n", "c", "o", "r", "r", "e", "c", "t">>,
      <<"n", "o", "t", " ", "h", "e", "l", "p", "f", "u", "l">>,
      <<"w", "r", "o", "n", "g">>,
      <<"b", "a", "d">> }

PositiveKeywords ==
    { <<"c", "o", "r", "r", "e", "c", "t">>,
      <<"h", "e", "l", "p", "f", "u", "l">>,
      <<"g", "o", "o", "d">>,
      <<"u", "s", "e", "f", "u", "l">>,
      <<"a", "c", "c", "u", "r", "a", "t", "e">> }

any_in(keywords, fb) == \E k \in keywords : contains(fb, k)

\* (item.get("correction") or "").strip() raises AttributeError on a value
\* that is truthy and no string
corr_raises(item) == item.kind = "dict" /\ item.correction.tag = "num"

\* a slip: the positive keywords looked for before the negative ones
classify_positive_first(item) ==
    LET fb == lower(item.feedback)
        corr == IF item.correction.tag = "str"
                THEN strip(item.correction.text) ELSE <<>>
    IN  IF corr # <<>> THEN "incorrect"
        ELSE IF any_in(PositiveKeywords, fb) THEN "correct"
        ELSE IF any_in(NegativeKeywords, fb) THEN "incorrect"
        ELSE "none"

\* the class of one record: the if / elif / elif / else of the loop
classify(item) ==
    LET fb == lower(item.feedback)
        corr == IF item.correction.tag = "str"
                THEN strip(item.correction.text) ELSE <<>>
    IN  IF corr # <<>> THEN "incorrect"
        ELSE IF any_in(NegativeKeywords, fb) THEN "incorrect"
        ELSE IF any_in(PositiveKeywords, fb) THEN "correct"
        ELSE "none"

\* the number of records of `items` that fall in class `class`; entries that
\* are no dict are passed over (`continue`)
RECURSIVE class_count(_, _)
class_count(items, class) ==
    IF items = <<>> THEN 0
    ELSE (IF Head(items).kind = "dict" /\ classify(Head(items)) = class
          THEN 1 ELSE 0) + class_count(Tail(items), class)

RECURSIVE dict_count(_)
dict_count(items) ==
    IF items = <<>> THEN 0
    ELSE (IF Head(items).kind = "dict" THEN 1 ELSE 0) + dict_count(Tail(items))

\* correct / total as a fraction, 0.0 as 0 / 1
accuracy_of(correct, total) ==
    IF total > 0 THEN [num |-> correct, den |-> total]
    ELSE [num |-> 0, den |-> 1]

\* the whole handler; a missing or unparsable file and a value that is no
\* list give the empty list
metrics_result(file) ==
    LET items == loaded_items(file)
        total == dict_count(items)
        correct == class_count(items, "correct")
        incorrect == class_count(items, "incorrect")
    IN  IF \E i \in 1..Len(items) : corr_raises(items[i])
        THEN [raised |-> TRUE, total |-> 0, correct |-> 0, incorrect |-> 0,
              accuracy |-> accuracy_of(0, 0)]
        ELSE [raised |-> FALSE, total |-> total, correct |-> correct,
              incorrect |-> incorrect,
              accuracy |-> accuracy_of(correct, total)]

(***************************************************************************)
(* Inputs.                                                                 *)
(***************************************************************************)
Questions == {<<"a">>, <<"b">>}

GenOutcomes ==
    { [err |-> TRUE, text |-> <<>>],
      [err |-> FALSE, text |-> <<SP>>],
      [err |-> FALSE, text |-> <<SP, "a", NL, "b">>] }

AppendTexts == { <<>>, <<SP, NL>>, <<SP, "b", SP>> }

FeedbackInputs ==
    { Dict(<<"b", "a", "d">>, StrCorrection(<<SP, "a", SP>>)),
      Dict(<<"o", "k">>, StrCorrection(<<SP, NL>>)) }

InitManuals ==
    { <<>>,
      <<SP, "a", SP, NL, NL, "b", SP, "b", NL, SP, NL, "b">> }

InitLogs ==
    { Absent, Corrupt, NonList,
      List(<<Junk>>),
      List(<<Falsy, Dict(<<>>, NumCorrection)>>) }

(***************************************************************************)
(* The state after the module has been imported, and the calls.            *)
(***************************************************************************)
NoCall ==
    [op |-> "none", arg |-> <<>>, wok |-> TRUE, raised |-> FALSE,
     ok |-> FALSE, answer |-> <<>>, sources |-> <<>>, ids |-> <<>>,
     added |-> 0, message |-> "",
     gen |-> [err |-> FALSE, text |-> <<>>], data |-> Falsy,
     total |-> 0, correct |-> 0, incorrect |-> 0,
     accuracy |-> [num |-> 0, den |-> 1]]

\* the threads of the server's pool that run the handlers
Workers == 1..NumWorkers

Idle ==
    [pc |-> "idle", ids |-> <<>>, retrieved_docs |-> <<>>, text |-> <<>>,
     sources |-> <<>>, new_texts |-> <<>>, feedback_data |-> <<>>]

Init ==
    /\ procs = [w \in Workers |-> Idle]
    /\ manual \in InitManuals
    /\ documents = load_docs(manual)
    /\ index = index_texts(<<>>, documents)
    /\ feedback_file \in InitLogs
    /\ api_key \in BOOLEAN
    /\ last = NoCall

Ask(q, gen, wok) ==
    \E r \in {ask_result(q, gen, wok, api_key, documents, index, manual)} :
        /\ Len(r.documents) <= MaxDocs
        /\ documents' = r.documents
        /\ index' = r.index
        /\ manual' = r.manual
        /\ last' = [NoCall EXCEPT !.op = "ask", !.wok = wok, !.gen = gen,
                                  !.ok = r.ok, !.answer = r.answer,
                                  !.sources = r.sources, !.ids = r.ids]
        /\ UNCHANGED <<feedback_file, api_key, procs>>

AppendCall(text, wok) ==
    \E r \in {append_to_manual_and_index(text, wok, documents, index, manual)} :
        /\ Len(r.documents) <= MaxDocs
        /\ documents' = r.documents
        /\ index' = r.index
        /\ manual' = r.manual
        /\ last' = [NoCall EXCEPT !.op = "append", !.arg = text, !.wok = wok,
                                  !.ok = r.ok]
        /\ UNCHANGED <<feedback_file, api_key, procs>>

\* a slip: the submission also puts its correction in the knowledge base
Feedback_indexing(data, fok) ==
    \E r \in {feedback_result(data, fok, feedback_file)} :
        /\ Len(r.file.items) <= MaxLog
        /\ feedback_file' = r.file
        /\ documents' = documents \o new_texts_of(<<data>>)
        /\ index' = index_texts(index, new_texts_of(<<data>>))
        /\ last' = [NoCall EXCEPT !.op = "feedback", !.wok = fok,
                                  !.data = data, !.raised = r.raised]
        /\ UNCHANGED <<manual, api_key, procs>>

Feedback(data, fok) ==
    \E r \in {feedback_result(data, fok, feedback_file)} :
        /\ Len(r.file.items) <= MaxLog
        /\ feedback_file' = r.file
        /\ last' = [NoCall EXCEPT !.op = "feedback", !.wok = fok,
                                  !.data = data, !.raised = r.raised]
        /\ UNCHANGED <<manual, documents, index, api_key, procs>>

Reindex(written) ==
    \E r \in {reindex_result(written, feedback_file, documents, index, manual)} :
        /\ Len(r.documents) <= MaxDocs
        /\ written <= Len(r.documents) - Len(documents)
        /\ documents' = r.documents
        /\ index' = r.index
        /\ manual' = r.manual
        /\ last' = [NoCall EXCEPT !.op = "reindex",
                                  !.wok = (written = Len(r.documents) - Len(documents)),
                                  !.raised = r.raised, !.added = r.added,
                                  !.message = r.message]
        /\ UNCHANGED <<feedback_file, api_key, procs>>

Metrics ==
    \E r \in {metrics_result(feedback_file)} :
        /\ last' = [NoCall EXCEPT !.op = "metrics", !.raised = r.raised,
                                  !.total = r.total, !.correct = r.correct,
                                  !.incorrect = r.incorrect,
                                  !.accuracy = r.accuracy]
        /\ UNCHANGED <<manual, documents, index, feedback_file, api_key, procs>>

\* the service: the four handlers, each call running alone
Next ==
    \/ \E q \in Questions, gen \in GenOutcomes, wok \in BOOLEAN : Ask(q, gen, wok)
    \/ \E data \in FeedbackInputs, fok \in BOOLEAN : Feedback(data, fok)
    \/ \E written \in 0..MaxLog : Reindex(written)
    \/ Metrics

Spec == Init /\ [][Next]_vars

\* _append_to_manual_and_index called on its own, on any text
NextAppend ==
    \E text \in AppendTexts, wok \in BOOLEAN : AppendCall(text, wok)

SpecAppend == Init /\ [][NextAppend]_vars

\* metrics called on any log of up to MaxMetricsLog entries
MetricsItems ==
    { Dict(<<"g", "o", "o", "d">>,
            StrCorrection(<<SP, "a", SP>>)),
      Dict(<<"v", "e", "r", "y", " ", "h", "e", "l", "p", "f", "u", "l">>,
            NoCorrection),
      Dict(<<"t", "o", "t", "a", "l", "l", "y", " ", "w", "r", "o", "n", "g">>,
            NoCorrection),
      Dict(<<"N", "o", "t", " ", "h", "e", "l", "p", "f", "u", "l">>,
            StrCorrection(<<SP, NL>>)),
      Dict(<<"I", "n", "c", "o", "r", "r", "e", "c", "t">>,
            NoCorrection),
      Dict(<<"o", "k">>, NoCorrection),
      Dict(<<"o", "k">>, NumCorrection),
      Junk,
      Falsy }

MetricsLogs ==
    {Absent, Corrupt, NonList}
        \cup { List(items) :
                 items \in UNION {[1..n -> MetricsItems] : n \in 0..MaxMetricsLog} }

InitMetrics ==
    /\ procs = [w \in Workers |-> Idle]
    /\ manual \in InitManuals
    /\ documents = load_docs(manual)
    /\ index = index_texts(<<>>, documents)
    /\ feedback_file \in MetricsLogs
    /\ api_key \in BOOLEAN
    /\ last = NoCall

NextMetrics == Metrics

SpecMetrics == InitMetrics /\ [][NextMetrics]_vars

(***************************************************************************)
(* The handlers run by the threads of the pool, with nothing that          *)
(* serializes them: a request is a sequence of steps, one per access to a  *)
(* shared store, and the steps of different threads interleave.            *)
(***************************************************************************)
Quiescent == \A w \in Workers : procs[w].pc = "idle"

\* passages that requests in flight have still to add to documents
RECURSIVE pending(_)
pending(ws) ==
    IF ws = {} THEN 0
    ELSE LET w == CHOOSE x \in ws : TRUE
             n == IF procs[w].pc \in {"generate", "append_write", "append_doc"}
                  THEN 1
                  ELSE IF procs[w].pc = "extend" THEN Len(procs[w].new_texts)
                  ELSE 0
         IN  n + pending(ws \ {w})

\* ask, up to the call of the model: the empty check, the search, the lookup
AskRetrieve(w, q) ==
    /\ procs[w].pc = "idle"
    /\ IF documents = <<>>
       THEN /\ last' = [NoCall EXCEPT !.op = "ask",
                                      !.answer = KnowledgeBaseIsEmpty]
            /\ UNCHANGED procs
       ELSE /\ Len(documents) + pending(Workers) < MaxDocs
            /\ \E ids \in {retrieved_ids(q, documents, index)} :
                   procs' = [procs EXCEPT ![w] =
                       [Idle EXCEPT !.pc = "generate", !.ids = ids,
                                    !.retrieved_docs = docs_at(ids, documents)]]
            /\ UNCHANGED last
    /\ UNCHANGED <<manual, documents, index, feedback_file, api_key>>

\* the call of the model and the fallback
AskGenerate(w, gen) ==
    /\ procs[w].pc = "generate"
    /\ procs' = [procs EXCEPT ![w] =
           [procs[w] EXCEPT
               !.pc = "append_write",
               !.text = fuse(gen, api_key, join(procs[w].retrieved_docs)),
               !.sources = sources_of(gen, api_key, procs[w].retrieved_docs)]]
    /\ UNCHANGED <<manual, documents, index, feedback_file, api_key, last>>

\* _append_to_manual_and_index: strip, and the write to the manual file
AppendWrite(w, wok) ==
    /\ procs[w].pc = "append_write"
    /\ IF strip(procs[w].text) # <<>> /\ wok
       THEN /\ manual' = write_line(manual, strip(procs[w].text))
            /\ procs' = [procs EXCEPT ![w].pc = "append_doc"]
            /\ UNCHANGED last
       ELSE /\ last' = [NoCall EXCEPT !.op = "ask", !.wok = wok,
                                      !.answer = procs[w].text,
                                      !.sources = procs[w].sources,
                                      !.ids = procs[w].ids]
            /\ procs' = [procs EXCEPT ![w] = Idle]
            /\ UNCHANGED manual
    /\ UNCHANGED <<documents, index, feedback_file, api_key>>

\* documents.append(text)
AppendDoc(w) ==
    /\ procs[w].pc = "append_doc"
    /\ documents' = Append(documents, strip(procs[w].text))
    /\ procs' = [procs EXCEPT ![w].pc = "append_index"]
    /\ UNCHANGED <<manual, index, feedback_file, api_key, last>>

\* _index_texts([text]), and the response of ask
AppendIndex(w) ==
    /\ procs[w].pc = "append_index"
    /\ index' = index_texts(index, <<strip(procs[w].text)>>)
    /\ last' = [NoCall EXCEPT !.op = "ask", !.ok = TRUE,
                              !.answer = procs[w].text,
                              !.sources = procs[w].sources,
                              !.ids = procs[w].ids]
    /\ procs' = [procs EXCEPT ![w] = Idle]
    /\ UNCHANGED <<manual, documents, feedback_file, api_key>>

\* reindex_from_feedback, up to `if not new_texts`
ReindexRead(w) ==
    /\ procs[w].pc = "idle"
    /\ \E r \in {reindex_result(0, feedback_file, <<>>, <<>>, <<>>)} :
           IF r.documents = <<>>
           THEN /\ last' = [NoCall EXCEPT !.op = "reindex",
                                          !.raised = r.raised,
                                          !.message = r.message]
                /\ UNCHANGED procs
           ELSE /\ Len(documents) + pending(Workers) + Len(r.documents) <= MaxDocs
                /\ procs' = [procs EXCEPT ![w] =
                       [Idle EXCEPT !.pc = "extend", !.new_texts = r.documents]]
                /\ UNCHANGED last
    /\ UNCHANGED <<manual, documents, index, feedback_file, api_key>>

\* documents.extend(new_texts)
ReindexExtend(w) ==
    /\ procs[w].pc = "extend"
    /\ documents' = documents \o procs[w].new_texts
    /\ procs' = [procs EXCEPT ![w].pc = "reindex_index"]
    /\ UNCHANGED <<manual, index, feedback_file, api_key, last>>

\* _index_texts(new_texts)
ReindexIndex(w) ==
    /\ procs[w].pc = "reindex_index"
    /\ index' = index_texts(index, procs[w].new_texts)
    /\ procs' = [procs EXCEPT ![w].pc = "reindex_write"]
    /\ UNCHANGED <<manual, documents, feedback_file, api_key, last>>

\* the write of the corrections to the manual file, and the response
ReindexWrite(w, written) ==
    /\ procs[w].pc = "reindex_write"
    /\ written <= Len(procs[w].new_texts)
    /\ manual' = write_lines(manual, SubSeq(procs[w].new_texts, 1, written))
    /\ last' = [NoCall EXCEPT !.op = "reindex",
                              !.wok = (written = Len(procs[w].new_texts)),
                              !.added = Len(procs[w].new_texts),
                              !.message = "Corrections added to index and manual."]
    /\ procs' = [procs EXCEPT ![w] = Idle]
    /\ UNCHANGED <<documents, index, feedback_file, api_key>>

\* feedback, up to feedback_data.append(data.dict())
FeedbackRead(w, data) ==
    /\ procs[w].pc = "idle"
    /\ Len(loaded_items(feedback_file))
         + Cardinality({v \in Workers : procs[v].pc = "feedback_write"}) < MaxLog
    /\ procs' = [procs EXCEPT ![w] =
           [Idle EXCEPT !.pc = "feedback_write",
                        !.feedback_data = Append(loaded_items(feedback_file), data)]]
    /\ UNCHANGED <<manual, documents, index, feedback_file, api_key, last>>

\* the rewrite of the whole log, and the response
FeedbackWrite(w, fok) ==
    /\ procs[w].pc = "feedback_write"
    /\ feedback_file' = IF fok THEN List(procs[w].feedback_data) ELSE feedback_file
    /\ last' = [NoCall EXCEPT
                    !.op = "feedback", !.wok = fok, !.raised = ~fok,
                    !.data = procs[w].feedback_data[Len(procs[w].feedback_data)]]
    /\ procs' = [procs EXCEPT ![w] = Idle]
    /\ UNCHANGED <<manual, documents, index, api_key>>

\* the inputs of the interleaved runs
ConcQuestions == {<<"b">>}

ConcGenOutcomes ==
    { [err |-> TRUE, text |-> <<>>],
      [err |-> FALSE, text |-> <<SP, "a", NL, "b">>] }

NextConc ==
    \E w \in Workers :
        \/ \E q \in ConcQuestions : AskRetrieve(w, q)
        \/ \E gen \in ConcGenOutcomes : AskGenerate(w, gen)
        \/ \E wok \in BOOLEAN : AppendWrite(w, wok)
        \/ AppendDoc(w)
        \/ AppendIndex(w)
        \/ ReindexRead(w)
        \/ ReindexExtend(w)
        \/ ReindexIndex(w)
        \/ \E written \in 0..MaxLog : ReindexWrite(w, written)
        \/ \E data \in FeedbackInputs : FeedbackRead(w, data)
        \/ \E fok \in BOOLEAN : FeedbackWrite(w, fok)

SpecConc == Init /\ [][NextConc]_vars

(***************************************************************************)
(* Properties.                                                             *)
(***************************************************************************)
\* the passages a step adds to documents
added_docs == SubSeq(documents', Len(documents) + 1, Len(documents'))

StoresUnchanged == documents' = documents /\ index' = index /\ manual' = manual

\* C1: after the startup load and any sequence of calls of ask and reindex,
\* documents holds as many passages as the index holds vectors, and every id
\* that the search of an ask surfaced is >= 0 and below that number.
C1_SizesAgree ==
    /\ Len(documents) = Len(index)
    /\ last.op = "ask" =>
           \A n \in 1..Len(last.ids) :
               last.ids[n] >= 0 /\ last.ids[n] < Len(index)

\* C1, its case: an ask that surfaced three ids and wrote its answer back
C1_Witness ==
    /\ last.op = "ask" /\ last.ok
    /\ Len(last.ids) = TopK
    /\ Len(documents) = Len(index) /\ Len(documents) = MaxDocs

\* C2: with no call in progress, the i-th non-empty trimmed line of the manual
\* file, the i-th passage of documents and the source text of the i-th vector
\* are the same text, so that a restart reproduces documents from the file.
C2_RestartReproduces ==
    /\ load_docs(manual) = documents
    /\ Len(index) = Len(documents)
    /\ \A i \in 1..Len(documents) : index[i].src = documents[i]

\* C3: _append_to_manual_and_index writes the manual file first and updates
\* documents and the index only if the write succeeded; when the write fails
\* it returns False and documents and the index are unchanged.
C3_WriteFirst ==
    [][last'.op = "append" =>
         /\ ~last'.wok => ~last'.ok /\ StoresUnchanged
         /\ last'.ok =>
               /\ manual' = write_line(manual, strip(last'.arg))
               /\ documents' = Append(documents, strip(last'.arg))
               /\ index' = Append(index, entry(strip(last'.arg)))
         /\ ~last'.ok => documents' = documents /\ index' = index]_vars

\* C3, its case: a call on a non-empty text whose write failed
C3_Witness ==
    /\ last.op = "append" /\ ~last.wok /\ ~last.ok
    /\ strip(last.arg) # <<>>

\* C4: a run of reindex adds no passage and no vector for a text that was not
\* written to the manual file, and does not count it in `added`: what the run
\* adds to documents is what it appended to the file.
C4_OnlyPersistedAdded ==
    [][last'.op = "reindex" =>
         /\ manual' = write_lines(manual, added_docs)
         /\ index' = index_texts(index, added_docs)
         /\ last'.added = Len(added_docs)]_vars

\* C5: whatever the interleaving of concurrent asks and reindex runs, once no
\* call is in progress passage i of documents is the text vector i of the
\* index was computed from, for every i.
C5_AlignedWhenQuiescent ==
    Quiescent =>
        /\ Len(index) = Len(documents)
        /\ \A i \in 1..Len(documents) : index[i].src = documents[i]

\* C6, as claimed: every ask, the one on an empty knowledge base included,
\* with a write that succeeds, leaves documents one passage longer, the new
\* last passage being the returned answer, trimmed.
C6_EveryAskPersists ==
    [][last'.op = "ask" /\ last'.wok =>
         documents' = Append(documents, strip(last'.answer))]_vars

\* C6, amended: every ask on a knowledge base that is not empty, with a write
\* that succeeds, leaves documents one passage longer, the new last passage
\* being the returned answer, trimmed, and the index one vector longer, that
\* of the answer; an ask on an empty knowledge base returns the fixed
\* "Knowledge base is empty." and changes nothing.
C6_AskPersistsUnlessEmpty ==
    [][last'.op = "ask" =>
         /\ last'.wok /\ documents # <<>> =>
               /\ last'.ok
               /\ documents' = Append(documents, strip(last'.answer))
               /\ index' = Append(index, entry(strip(last'.answer)))
         /\ documents = <<>> =>
               last'.answer = KnowledgeBaseIsEmpty /\ StoresUnchanged]_vars

\* C6, its case: an ask whose fallback answer became the last passage
C6_Witness ==
    /\ last.op = "ask" /\ last.wok /\ last.ok
    /\ Len(documents) >= 2
    /\ documents[Len(documents)] = last.answer
    /\ last.answer[1] = BasedOnTheManual[1]

\* C7: on a log that holds n >= 1 records with a non-empty trimmed correction,
\* every run of reindex returns added = n and appends to documents exactly
\* these n corrections, trimmed, in log order (so a second run on the same
\* log adds them a second time).
C7_EveryRunAddsAll ==
    [][last'.op = "reindex" /\ new_texts_of(loaded_items(feedback_file)) # <<>> =>
         /\ ~last'.raised
         /\ last'.added = Len(new_texts_of(loaded_items(feedback_file)))
         /\ documents' = documents \o new_texts_of(loaded_items(feedback_file))]_vars

\* C8: a run of reindex returns added = 0 and leaves documents, the index and
\* the manual file unchanged whenever the log is absent, unparsable, or holds
\* no record whose correction is a non-empty string after trimming.
C8_NothingToAdd ==
    [][last'.op = "reindex" /\ new_texts_of(loaded_items(feedback_file)) = <<>> =>
         /\ ~last'.raised
         /\ last'.added = 0
         /\ StoresUnchanged]_vars

\* C9: _append_to_manual_and_index on an empty or whitespace-only text
\* returns False and leaves documents, the index and the manual file as they
\* were.
C9_EmptyTextRejected ==
    [][last'.op = "append" /\ strip(last'.arg) = <<>> =>
         ~last'.ok /\ StoresUnchanged]_vars

\* C9, its case: a whitespace-only text, refused although the file was writable
C9_Witness ==
    /\ last.op = "append" /\ last.arg = <<SP, NL>>
    /\ last.wok /\ ~last.ok

\* C10: an ask issued while documents is empty raises nothing and returns a
\* response whose sources are the empty sequence.
C10_EmptyKnowledgeBase ==
    [][last'.op = "ask" /\ documents = <<>> =>
         ~last'.raised /\ last'.sources = <<>>]_vars

\* C10, its case: the response of an ask on the empty knowledge base
C10_Witness ==
    /\ last.op = "ask" /\ documents = <<>>
    /\ last.answer = KnowledgeBaseIsEmpty /\ last.sources = <<>>

\* C11: the knowledge base is append-only: over every step of ask, feedback,
\* reindex and metrics the passage sequence before the step is a prefix of
\* the passage sequence after it.
C11_AppendOnly ==
    [][/\ Len(documents) <= Len(documents')
       /\ SubSeq(documents', 1, Len(documents)) = documents]_vars

\* C11, its case: a reindex that added corrections behind passages that were
\* there already
C11_Witness ==
    /\ last.op = "reindex" /\ last.added >= 1
    /\ Len(documents) > last.added

\* C12: an ask whose generation call fails, or returns an empty or
\* whitespace-only text, raises nothing; its answer is the fixed prefix
\* followed by the retrieved passages when a passage was retrieved and the
\* fixed no-information message otherwise; and the answer goes through the
\* append path as a generated answer does.
C12_FallbackAnswer ==
    [][/\ last'.op = "ask" /\ documents # <<>> /\ api_key
       /\ last'.gen.err \/ strip(last'.gen.text) = <<>>
       =>
       /\ ~last'.raised
       /\ last'.answer = IF last'.ids # <<>>
                         THEN BasedOnTheManual \o join(docs_at(last'.ids, documents))
                         ELSE NoRelevantInfo
       /\ fuse(last'.gen, api_key, <<>>) = NoRelevantInfo
       /\ last'.ok = last'.wok
       /\ last'.wok =>
              /\ documents' = Append(documents, strip(last'.answer))
              /\ index' = Append(index, entry(strip(last'.answer)))
              /\ manual' = write_line(manual, strip(last'.answer))
       /\ ~last'.wok => StoresUnchanged]_vars

\* C12, its case: the model returned only whitespace, and the fallback answer
\* became the last passage
C12_Witness ==
    /\ last.op = "ask" /\ api_key
    /\ ~last.gen.err /\ last.gen.text = <<SP>>
    /\ last.ok
    /\ last.answer[1] = BasedOnTheManual[1]
    /\ documents[Len(documents)] = last.answer

\* C13: feedback submissions are serialized: whatever the interleaving, a
\* submission that completes on a valid log leaves every record the log held
\* and adds its own, so that k submissions on a log of m records leave m + k.
C13_NoSubmissionLost ==
    [][\A w \in Workers :
         /\ procs[w].pc = "feedback_write" /\ procs'[w].pc = "idle"
         /\ ~last'.raised
         /\ feedback_file.kind = "list"
         => feedback_file' = List(Append(feedback_file.items, last'.data))]_vars

C15_SourcesFromKnowledgeBase ==
    [][last'.op = "ask" /\ documents # <<>> =>
         /\ Len(last'.sources) = Min(TopK, Len(documents))
         /\ Len(last'.ids) = Len(last'.sources)
         /\ last'.sources # <<>>
         /\ \A m \in 1..Len(last'.ids) :
                /\ last'.ids[m] \in 0..(Len(documents) - 1)
                /\ last'.sources[m] = documents[last'.ids[m] + 1]
                /\ \A n \in 1..Len(last'.ids) :
                       last'.ids[m] = last'.ids[n] => m = n]_vars

\* C15, its case: three sources out of four passages (the write-back failed,
\* so the four are the ones that were searched)
C15_Witness ==
    /\ last.op = "ask" /\ ~last.wok
    /\ Len(documents) = 4
    /\ Len(last.sources) = 3

\* C16: reindex never raises, whatever the feedback log holds: a missing
\* file, unparsable content, a value that is no list, or a list with entries
\* that are no records.
C16_ReindexNeverRaises == last.op = "reindex" => ~last.raised

\* C17: a feedback submission that runs alone leaves the records of the log
\* unchanged and in order and adds the new record at the end; a log that is
\* missing or unreadable counts as empty.
C17_RecordsKept ==
    [][last'.op = "feedback" =>
         LET before == IF feedback_file.kind = "list"
                       THEN feedback_file.items ELSE <<>>
         IN  IF last'.raised
             THEN feedback_file' = feedback_file
             ELSE /\ feedback_file'.kind = "list"
                  /\ feedback_file'.items = Append(before, last'.data)]_vars

\* C17, its case: two different records, submitted one after the other
C17_Witness ==
    /\ last.op = "feedback" /\ ~last.raised
    /\ feedback_file.kind = "list" /\ Len(feedback_file.items) = 2
    /\ feedback_file.items[1] \in FeedbackInputs
    /\ feedback_file.items[2] = last.data
    /\ feedback_file.items[1] # feedback_file.items[2]

\* C18: a feedback submission leaves documents, the index and the manual
\* file unchanged; ask and reindex leave the feedback log unchanged; metrics
\* leaves all four unchanged.
C18_SingleWriter ==
    [][/\ last'.op = "feedback" => StoresUnchanged
       /\ last'.op \in {"ask", "reindex"} => feedback_file' = feedback_file
       /\ last'.op = "metrics" =>
              StoresUnchanged /\ feedback_file' = feedback_file]_vars

\* C18, its case: a stored submission that carries a correction, next to a
\* knowledge base that holds passages
C18_Witness ==
    /\ last.op = "feedback" /\ ~last.raised
    /\ strip(last.data.correction.text) # <<>>
    /\ feedback_file.items[Len(feedback_file.items)] = last.data
    /\ documents # <<>>

\* C19: in every reachable state every passage of documents is a non-empty
\* text that neither starts nor ends with whitespace.
C19_PassagesTrimmed ==
    \A i \in 1..Len(documents) :
        /\ documents[i] # <<>>
        /\ ~IsSpace(documents[i][1])
        /\ ~IsSpace(documents[i][Len(documents[i])])

\* C19, its case: an answer written back by ask, and behind it a correction
\* that reindex added
C19_Witness ==
    /\ Len(documents) >= 3
    /\ last.op = "reindex" /\ last.added = 1
    /\ documents[Len(documents)] = <<"a">>
    /\ \E i \in 1..(Len(documents) - 1) : documents[i][1] = BasedOnTheManual[1]

====
